---- MODULE Spec2Model ----
(***************************************************************************)
(* GRH-verification: the inequality verification engine of                 *)
(* src/src/rh_verification.cpp (exposed to Python by src/src/pybind.cpp)   *)
(* and the stand-alone command-line program src/src/rh_verify.cpp.         *)
(*                                                                         *)
(* Doubles are modelled as fixed-point numbers: a finite double x is the   *)
(* integer nearest to x * Scale; the IEEE specials +inf, -inf and NaN are  *)
(* kept, because the code produces them (log(0), log of a negative number, *)
(* division by k*k = 0).                                                   *)
(***************************************************************************)
EXTENDS Integers, Sequences, FiniteSets

(* ------------------------------------------------------------------ *)
(* Bounds of the model                                                 *)
(* ------------------------------------------------------------------ *)
MaxLen == 3
MaxArr == 3
MaxK == 2

(* Fixed-point resolution: 1.0 is Scale units.  8*9*25*109 makes every
   quotient of iota(0), iota(2) and of the intervals (-2,2), (-3,3), (0,5)
   exact. *)
Scale == 8 * 9 * 25 * 109

(* ------------------------------------------------------------------ *)
(* double                                                              *)
(* ------------------------------------------------------------------ *)
Fin(n) == [k |-> "fin", v |-> n]
PInf == [k |-> "pinf", v |-> 0]
NInf == [k |-> "ninf", v |-> 0]
NaN == [k |-> "nan", v |-> 0]

Abs(n) == IF n < 0 THEN -n ELSE n

\* a / b rounded to the nearest integer (b > 0), ties away from zero
RDiv(a, b) ==
  IF a >= 0 THEN (2 * a + b) \div (2 * b) ELSE -((2 * (-a) + b) \div (2 * b))

FNeg(a) ==
  CASE a.k = "fin" -> Fin(-a.v)
    [] a.k = "pinf" -> NInf
    [] a.k = "ninf" -> PInf
    [] OTHER -> NaN

FAdd(a, b) ==
  CASE a.k = "nan" \/ b.k = "nan" -> NaN
    [] a.k = "fin" /\ b.k = "fin" -> Fin(a.v + b.v)
    [] a.k = "fin" -> b
    [] b.k = "fin" -> a
    [] a.k = b.k -> a
    [] OTHER -> NaN

FSub(a, b) == FAdd(a, FNeg(b))

\* a > b on doubles: false as soon as one side is NaN
FGt(a, b) ==
  CASE a.k = "nan" \/ b.k = "nan" -> FALSE
    [] a.k = "fin" /\ b.k = "fin" -> a.v > b.v
    [] a.k = "pinf" -> b.k # "pinf"
    [] a.k = "ninf" -> FALSE
    [] OTHER -> b.k = "ninf"

\* 0.5 * a and 2.0 * a
FHalf(a) == IF a.k = "fin" THEN Fin(RDiv(a.v, 2)) ELSE a
FTwice(a) == IF a.k = "fin" THEN Fin(2 * a.v) ELSE a

\* a / n for a finite double a and the double of an integer n >= 0
FDivInt(a, n) ==
  IF n = 0
  THEN (IF a.v > 0 THEN PInf ELSE IF a.v < 0 THEN NInf ELSE NaN)
  ELSE Fin(RDiv(a.v, n))

(* ------------------------------------------------------------------ *)
(* <cmath>: std::log at the arguments the inputs below produce         *)
(* ------------------------------------------------------------------ *)
EULER_CONSTANT == 113250
LN_PI == 224596

\* round(ln(n) * Scale) for the integers whose logarithm is taken
Ln(n) ==
  CASE n = 2 -> 135995
    [] n = 4 -> 271991
    [] n = 1003 -> 1355889
    [] n = 2001 -> 1491395

\* std::log(fabs(d) * exp(2) / (4 pi exp(EULER_CONSTANT))), d # 0
log_neg_branch(d) ==
  Fin(Ln(Abs(d)) + 2 * Scale - Ln(4) - LN_PI - EULER_CONSTANT)

\* std::log(d / (pi exp(EULER_CONSTANT))): -inf at d = 0, NaN below 0
log_pos_branch(d) ==
  IF d < 0 THEN NaN
  ELSE IF d = 0 THEN NInf
  ELSE Fin(Ln(d) - LN_PI - EULER_CONSTANT)

(* ------------------------------------------------------------------ *)
(* Interval endpoints.  A double gamma = w + n * 1e-9 with w a whole   *)
(* number and |n| < 1e8 is the record [w, n]: the 1e-8 threshold of    *)
(* the classification is 10 units of n.  n is far below the fixed-     *)
(* point resolution, so gamma * gamma is w * w.                        *)
(* ------------------------------------------------------------------ *)
G(w, n) == [w |-> w, n |-> n]

\* std::fabs(gamma_minus + gamma_plus) < tol * 1e-9
FabsSumBelow(gamma_minus, gamma_plus, tol) ==
  /\ gamma_minus.w + gamma_plus.w = 0
  /\ Abs(gamma_minus.n + gamma_plus.n) < tol

\* gamma * gamma (also fabs(gamma) * fabs(gamma))
Sq(gamma) == gamma.w * gamma.w

(* ------------------------------------------------------------------ *)
(* src/src/rh_verification.cpp                                         *)
(* ------------------------------------------------------------------ *)
iota(eta) ==
  LET term1 == RDiv(Scale, 1 + eta * eta) + RDiv(2 * Scale, 4 + eta * eta)
      term2 == RDiv(12 * Scale, 9 + 4 * eta * eta)
  IN  Fin(IF term1 < term2 THEN term1 ELSE term2)

RECURSIVE C_Z_from(_, _, _)
C_Z_from(intervals, i, sum) ==
  IF i > Len(intervals) THEN sum
  ELSE LET gamma_minus == intervals[i][1]
           gamma_plus == intervals[i][2]
       IN  IF FabsSumBelow(gamma_minus, gamma_plus, 10)
           THEN C_Z_from(intervals, i + 1,
                         FAdd(sum, Fin(RDiv(6 * Scale, 9 + 4 * Sq(gamma_plus)))))
           ELSE C_Z_from(intervals, i + 1,
                         FAdd(sum, Fin(RDiv(12 * Scale, 9 + 4 * Sq(gamma_plus)))))

C_Z(intervals) == C_Z_from(intervals, 1, Fin(0))

\* std::vector<T>::operator[] at C++ index k (TLA+ sequences start at 1)
InRange(arr, k) == 0 <= k /\ k < Len(arr)
At(arr, k) == arr[k + 1]

(* log_derivative.  The loop  for (k = K; k <= K; ++k)  runs its body once,
   at k = K.  operator[] does not check its index: an out-of-range read is
   undefined behaviour, which is either a crash (ub.segv) or a read of
   whatever lies there (ub.chi, ub.lam). *)
log_derivative(chi_arr, lambda_arr, K, ub) ==
  LET k == K
      chiOut == ~InRange(chi_arr, k)
      chi_k == IF chiOut THEN ub.chi ELSE At(chi_arr, k)
      lamOut == chi_k # 0 /\ ~InRange(lambda_arr, k)
      lambda_k == IF InRange(lambda_arr, k) THEN At(lambda_arr, k) ELSE ub.lam
      k_sq == k * k
  IN  IF (chiOut \/ lamOut) /\ ub.segv THEN [st |-> "segv", val |-> Fin(0)]
      ELSE IF chi_k = 0 THEN [st |-> "ok", val |-> Fin(0)]
      ELSE [st |-> "ok",
            val |-> FSub(Fin(0), FDivInt(Fin(chi_k * lambda_k), k_sq))]

\* Faulty variant: the symmetry tolerance taken as 1e-7 instead of 1e-8
zero_contribution_wide_tol(gamma_minus, gamma_plus) ==
  IF FabsSumBelow(gamma_minus, gamma_plus, 100)
  THEN Fin(RDiv(6 * Scale, 9 + 4 * Sq(gamma_plus)))
  ELSE Fin(RDiv(12 * Scale, 9 + 4 * Sq(gamma_plus)))

zero_contribution(gamma_minus, gamma_plus) ==
  IF FabsSumBelow(gamma_minus, gamma_plus, 10)
  THEN Fin(RDiv(6 * Scale, 9 + 4 * Sq(gamma_plus)))
  ELSE Fin(RDiv(12 * Scale, 9 + 4 * Sq(gamma_plus)))

\* What a call hands back: st is "ok" on a normal return
Ret(st, verified, N_used, lhs, rhs, val) ==
  [st |-> st, verified |-> verified, N_used |-> N_used,
   lhs |-> lhs, rhs |-> rhs, val |-> val]

NoRet == Ret("none", FALSE, 0, Fin(0), Fin(0), Fin(0))

\* lhs after folding interval i into it, as the loop body of rh_verify does
\* (used by the faulty variants below)
Folded(intervals, i, lhs) ==
  IF FabsSumBelow(intervals[i][1], intervals[i][2], 10)
  THEN FAdd(lhs, Fin(RDiv(6 * Scale, 9 + 4 * Sq(intervals[i][2]))))
  ELSE FAdd(lhs, Fin(RDiv(12 * Scale, 9 + 4 * Sq(intervals[i][2]))))

\* Faulty variant: N_used incremented after the comparison instead of before
RECURSIVE rh_verify_loop_late_count(_, _, _, _, _)
rh_verify_loop_late_count(intervals, i, N_used, lhs, rhs) ==
  IF i > Len(intervals) THEN Ret("ok", FALSE, N_used, lhs, rhs, Fin(0))
  ELSE IF FGt(Folded(intervals, i, lhs), rhs)
  THEN Ret("ok", TRUE, N_used, Folded(intervals, i, lhs), rhs, Fin(0))
  ELSE rh_verify_loop_late_count(intervals, i + 1, N_used + 1,
                                 Folded(intervals, i, lhs), rhs)

\* Faulty variant: lhs >= rhs accepted
RECURSIVE rh_verify_loop_ge(_, _, _, _, _)
rh_verify_loop_ge(intervals, i, N_used, lhs, rhs) ==
  IF i > Len(intervals) THEN Ret("ok", FALSE, N_used, lhs, rhs, Fin(0))
  ELSE IF ~FGt(rhs, Folded(intervals, i, lhs)) /\ rhs.k # "nan"
  THEN Ret("ok", TRUE, N_used + 1, Folded(intervals, i, lhs), rhs, Fin(0))
  ELSE rh_verify_loop_ge(intervals, i + 1, N_used + 1,
                         Folded(intervals, i, lhs), rhs)

\* Faulty variant: no early return, lhs compared with rhs after the loop
RECURSIVE rh_verify_loop_no_exit(_, _, _, _, _)
rh_verify_loop_no_exit(intervals, i, N_used, lhs, rhs) ==
  IF i > Len(intervals) THEN Ret("ok", FGt(lhs, rhs), N_used, lhs, rhs, Fin(0))
  ELSE rh_verify_loop_no_exit(intervals, i + 1, N_used + 1,
                              Folded(intervals, i, lhs), rhs)

(* The accumulation loop of rh_verify, from C++ index i - 1 on, with the
   values N_used and lhs have on entry to that iteration. *)
RECURSIVE rh_verify_loop(_, _, _, _, _)
rh_verify_loop(intervals, i, N_used, lhs, rhs) ==
  IF i > Len(intervals) THEN Ret("ok", FALSE, N_used, lhs, rhs, Fin(0))
  ELSE LET gamma_minus == intervals[i][1]
           gamma_plus == intervals[i][2]
           lhs1 == IF FabsSumBelow(gamma_minus, gamma_plus, 10)
                   THEN FAdd(lhs, Fin(RDiv(6 * Scale, 9 + 4 * Sq(gamma_plus))))
                   ELSE FAdd(lhs, Fin(RDiv(12 * Scale, 9 + 4 * Sq(gamma_plus))))
       IN  IF FGt(lhs1, rhs)
           THEN Ret("ok", TRUE, N_used + 1, lhs1, rhs, Fin(0))
           ELSE rh_verify_loop(intervals, i + 1, N_used + 1, lhs1, rhs)

\* rhs of rh_verify once log_derivative has returned ld
rh_verify_rhs(d, ld) ==
  IF d < 0 THEN FAdd(FHalf(log_neg_branch(d)), ld)
  ELSE FAdd(FHalf(log_pos_branch(d)), ld)

\* Faulty variant: lhs compared with rhs before the first interval is folded
rh_verify_checks_first(d, K, eta, intervals, chi_arr, lambda_arr, ub) ==
  LET ld == log_derivative(chi_arr, lambda_arr, K, ub)
  IN  IF ld.st # "ok" THEN Ret(ld.st, FALSE, 0, Fin(0), Fin(0), Fin(0))
      ELSE IF FGt(FTwice(iota(eta)), rh_verify_rhs(d, ld.val))
      THEN Ret("ok", TRUE, 0, FTwice(iota(eta)), rh_verify_rhs(d, ld.val), Fin(0))
      ELSE rh_verify_loop(intervals, 1, 0, FTwice(iota(eta)),
                          rh_verify_rhs(d, ld.val))

rh_verify(d, K, eta, intervals, chi_arr, lambda_arr, ub) ==
  LET ld == log_derivative(chi_arr, lambda_arr, K, ub)
  IN  IF ld.st # "ok" THEN Ret(ld.st, FALSE, 0, Fin(0), Fin(0), Fin(0))
      ELSE rh_verify_loop(intervals, 1, 0, FTwice(iota(eta)),
                          rh_verify_rhs(d, ld.val))

\* src/src/pybind.cpp: the tuple (verified, N_used, lhs, rhs)
py_rh_verify(d, K, eta, intervals, chi_arr, lambda_arr, ub) ==
  rh_verify(d, K, eta, intervals, chi_arr, lambda_arr, ub)

(* ------------------------------------------------------------------ *)
(* src/src/rh_verify.cpp, the command-line program.  The maps loaded   *)
(* from data/kronecker.txt and data/von_mangoldt.txt hold the keys     *)
(* 0 .. Len - 1 of the arrays; map::at throws std::out_of_range on a   *)
(* missing key and main does not catch it.                             *)
(* ------------------------------------------------------------------ *)
RECURSIVE cli_C_Z_from(_, _, _)
cli_C_Z_from(intervals, i, sum) ==
  IF i > Len(intervals) THEN sum
  ELSE LET gamma_minus == intervals[i][1]
           gamma_plus == intervals[i][2]
       IN  IF FabsSumBelow(gamma_minus, gamma_plus, 10)
           THEN cli_C_Z_from(intervals, i + 1,
                             FAdd(sum, Fin(RDiv(6 * Scale, 9 + 4 * Sq(gamma_plus)))))
           ELSE cli_C_Z_from(intervals, i + 1,
                             FAdd(sum, Fin(RDiv(12 * Scale, 9 + 4 * Sq(gamma_plus)))))

cli_C_Z(intervals) == cli_C_Z_from(intervals, 1, Fin(0))

RECURSIVE pow(_, _)
pow(k, e) == IF e = 0 THEN 1 ELSE k * pow(k, e - 1)

RECURSIVE logarithmic_derivative_from(_, _, _, _, _, _)
logarithmic_derivative_from(k, sum, delta, K, chi_d_arr, lambda_arr) ==
  IF k > K THEN [st |-> "ok", val |-> sum]
  ELSE IF ~InRange(lambda_arr, k) \/ ~InRange(chi_d_arr, k)
  THEN [st |-> "out_of_range", val |-> Fin(0)]
  ELSE LET lambda_L == Fin(At(lambda_arr, k) * At(chi_d_arr, k))
       IN  logarithmic_derivative_from(
             k + 1, FSub(sum, FDivInt(lambda_L, pow(k, 1 - delta))),
             delta, K, chi_d_arr, lambda_arr)

logarithmic_derivative(delta, K, chi_d_arr, lambda_arr) ==
  logarithmic_derivative_from(1, Fin(0), delta, K, chi_d_arr, lambda_arr)

\* verified is TRUE for "Condition satisfied", FALSE for "Condition not satisfied"
main(d, eta, K, intervals, chi_d_arr, lambda_arr) ==
  LET lhs == FAdd(FTwice(iota(eta)), cli_C_Z(intervals))
      ld == logarithmic_derivative(-1, K, chi_d_arr, lambda_arr)
      rhs == FAdd(FHalf(log_pos_branch(d)), ld.val)
  IN  IF ld.st # "ok" THEN Ret(ld.st, FALSE, 0, lhs, Fin(0), Fin(0))
      ELSE Ret("ok", FGt(lhs, rhs), 0, lhs, rhs, ld.val)

(* ------------------------------------------------------------------ *)
(* State: the arguments of one call, the operation called and what it  *)
(* handed back.  Every operation is a pure function of its arguments.  *)
(* ------------------------------------------------------------------ *)
VARIABLES d, K, eta, intervals, chi_arr, lambda_arr, op, arg, ret

vars == <<d, K, eta, intervals, chi_arr, lambda_arr, op, arg, ret>>

SeqsUpTo(S, n) == UNION {[1..m -> S] : m \in 0..n}

\* Zero intervals: symmetric, symmetric within the tolerance (5e-9 off),
\* asymmetric, and asymmetric just outside the tolerance (2e-8 off)
IvSym == <<G(-2, 0), G(2, 0)>>
IvNearSym == <<G(-3, 0), G(3, 5)>>
IvAsym == <<G(0, 0), G(5, 0)>>
IvNearAsym == <<G(-7, 0), G(7, 20)>>
IntervalSet == {IvSym, IvNearSym, IvAsym, IvNearAsym}

\* Discriminants: both signs and 0
DSet == {-1003, -4, 0, 2001}

\* An entry of lambda_arr that puts rhs exactly on
\* 2*iota(0) + zero_contribution(-2, 2) for d = -4, K = 1, chi_arr[1] = -1
LambdaTight ==
  FTwice(iota(0)).v + zero_contribution(IvSym[1], IvSym[2]).v
    - FHalf(log_neg_branch(-4)).v

\* What an out-of-range read may yield, and whether it crashes instead
UB == [segv : BOOLEAN, chi : {0, 77}, lam : {0, Ln(2)}]
NoUB == [segv |-> FALSE, chi |-> 0, lam |-> 0]

\* Calls of the verifier on well-formed arrays (entries 0 and 1, K = 1)
InitVerifier ==
  /\ d \in DSet
  /\ eta \in {0, 2}
  /\ K = 1
  /\ intervals \in SeqsUpTo(IntervalSet, MaxLen)
  /\ chi_arr \in {<<0, c>> : c \in {-1, 0, 1}}
  /\ lambda_arr \in {<<0, l>> : l \in {Ln(2), LambdaTight}}

\* Calls on arbitrary arrays and K, K below 0 and beyond the arrays included
InitArrays ==
  /\ d \in {-4, 2001}
  /\ eta = 0
  /\ K \in -1..MaxK
  /\ intervals = <<IvSym>>
  /\ chi_arr \in SeqsUpTo({-1, 0, 1}, MaxArr)
  /\ lambda_arr \in SeqsUpTo({0, Ln(2)}, MaxArr)

Init ==
  /\ InitVerifier \/ InitArrays
  /\ op = "none"
  /\ arg = 0
  /\ ret = NoRet

Call_rh_verify ==
  /\ op = "none"
  /\ \E ub \in UB :
       ret' = py_rh_verify(d, K, eta, intervals, chi_arr, lambda_arr, ub)
  /\ op' = "rh_verify"
  /\ UNCHANGED <<d, K, eta, intervals, chi_arr, lambda_arr, arg>>

Call_C_Z ==
  /\ op = "none"
  /\ ret' = [NoRet EXCEPT !.st = "ok", !.val = C_Z(intervals)]
  /\ op' = "C_Z"
  /\ UNCHANGED <<d, K, eta, intervals, chi_arr, lambda_arr, arg>>

Call_zero_contribution ==
  /\ op = "none"
  /\ \E i \in 1..Len(intervals) :
       /\ arg' = i
       /\ ret' = [NoRet EXCEPT !.st = "ok",
                    !.val = zero_contribution(intervals[i][1], intervals[i][2])]
  /\ op' = "zero_contribution"
  /\ UNCHANGED <<d, K, eta, intervals, chi_arr, lambda_arr>>

Call_log_derivative ==
  /\ op = "none"
  /\ \E ub \in UB :
       LET r == log_derivative(chi_arr, lambda_arr, K, ub)
       IN  ret' = [NoRet EXCEPT !.st = r.st, !.val = r.val]
  /\ op' = "log_derivative"
  /\ UNCHANGED <<d, K, eta, intervals, chi_arr, lambda_arr, arg>>

Run_main ==
  /\ op = "none"
  /\ ret' = main(d, eta, K, intervals, chi_arr, lambda_arr)
  /\ op' = "main"
  /\ UNCHANGED <<d, K, eta, intervals, chi_arr, lambda_arr, arg>>

Next ==
  \/ Call_rh_verify
  \/ Call_C_Z
  \/ Call_zero_contribution
  \/ Call_log_derivative
  \/ Run_main

Spec == Init /\ [][Next]_vars

(* ------------------------------------------------------------------ *)
(* Properties                                                          *)
(* ------------------------------------------------------------------ *)
Returned(o) == op = o /\ ret.st = "ok"

\* log_derivative reads only inside chi_arr and lambda_arr
ArraysCover ==
  /\ InRange(chi_arr, K)
  /\ At(chi_arr, K) # 0 => InRange(lambda_arr, K)

\* log_derivative reads chi_arr or lambda_arr at an index outside it
QueriesOutside == ~ArraysCover

RECURSIVE SumContributions(_)
SumContributions(seq) ==
  IF seq = <<>> THEN Fin(0)
  ELSE FAdd(SumContributions(Tail(seq)),
            zero_contribution(Head(seq)[1], Head(seq)[2]))

\* 2*iota(eta) + the zero contributions of the first n intervals
PrefixLhs(n) ==
  FAdd(FTwice(iota(eta)), SumContributions(SubSeq(intervals, 1, n)))

Permutations(n) ==
  {f \in [1..n -> 1..n] : \A i, j \in 1..n : f[i] = f[j] => i = j}

\* sum over k = 1..j of -chi_arr[k]*lambda_arr[k]/k^2, 0 where chi_arr[k] = 0
RECURSIVE PartialSum(_)
PartialSum(j) ==
  IF j = 0 THEN Fin(0)
  ELSE FAdd(PartialSum(j - 1),
            IF At(chi_arr, j) = 0 THEN Fin(0)
            ELSE FNeg(FDivInt(Fin(At(chi_arr, j) * At(lambda_arr, j)), j * j)))

(* C1, as stated: with in-range arrays rh_verify returns true iff some prefix
   of the intervals, the empty one included, makes 2*iota(eta) + its
   contributions exceed rhs; N_used is then the length of the shortest such
   prefix, lhs holds exactly that prefix, and N_used is the interval count
   when it returns false. *)
C1_AnyPrefix ==
  (Returned("rh_verify") /\ ArraysCover) =>
    /\ ret.verified <=> \E n \in 0..Len(intervals) : FGt(PrefixLhs(n), ret.rhs)
    /\ ret.verified =>
         /\ FGt(PrefixLhs(ret.N_used), ret.rhs)
         /\ \A m \in 0..(ret.N_used - 1) : ~FGt(PrefixLhs(m), ret.rhs)
         /\ ret.lhs = PrefixLhs(ret.N_used)
    /\ ~ret.verified => ret.N_used = Len(intervals)

(* C1, amended: the same with non-empty prefixes only: rh_verify returns true
   iff some prefix of length >= 1 exceeds rhs, N_used is the length of the
   shortest such prefix, lhs is 2*iota(eta) plus the contributions of exactly
   the first N_used intervals, and N_used is the interval count on false. *)
C1_NonEmptyPrefix ==
  (Returned("rh_verify") /\ ArraysCover) =>
    /\ ret.verified <=> \E n \in 1..Len(intervals) : FGt(PrefixLhs(n), ret.rhs)
    /\ ret.verified =>
         /\ ret.N_used \in 1..Len(intervals)
         /\ FGt(PrefixLhs(ret.N_used), ret.rhs)
         /\ \A m \in 1..(ret.N_used - 1) : ~FGt(PrefixLhs(m), ret.rhs)
         /\ ret.lhs = PrefixLhs(ret.N_used)
    /\ ~ret.verified => ret.N_used = Len(intervals)

\* rh_verify stopped at a second or later interval and left intervals unread
C1_Witness ==
  /\ Returned("rh_verify") /\ ArraysCover
  /\ ret.verified
  /\ ret.N_used >= 2
  /\ ret.N_used < Len(intervals)

(* C2: when 2*iota(eta) plus the contributions of all intervals does not
   strictly exceed rhs, rh_verify returns false with N_used the interval count
   and lhs that full sum; it never returns true with lhs equal to rhs. *)
C2_NotExceeding ==
  Returned("rh_verify") =>
    /\ ~FGt(PrefixLhs(Len(intervals)), ret.rhs) =>
         /\ ~ret.verified
         /\ ret.N_used = Len(intervals)
         /\ ret.lhs = PrefixLhs(Len(intervals))
    /\ ret.verified => ret.lhs # ret.rhs

\* All intervals were folded and lhs landed exactly on rhs
C2_Witness ==
  /\ Returned("rh_verify")
  /\ Len(intervals) >= 1
  /\ ret.lhs = ret.rhs
  /\ ~ret.verified
  /\ ret.N_used = Len(intervals)

(* C3: a call of log_derivative, direct or through rh_verify, that reads
   chi_arr or lambda_arr outside its extent ends in a domain error. *)
C3_DomainError ==
  (op \in {"log_derivative", "rh_verify"} /\ QueriesOutside) =>
    ret.st = "domain_error"

(* C4: for K >= 1 and arrays covering 1..K, log_derivative returns the
   partial sum over k = 1..K of -chi_arr[k]*lambda_arr[k]/k^2. *)
C4_PartialSum ==
  (op = "log_derivative" /\ K >= 1 /\ InRange(chi_arr, K) /\ InRange(lambda_arr, K)) =>
    /\ ret.st = "ok"
    /\ ret.val = PartialSum(K)

(* C5: the log-derivative the command-line program feeds into its rhs is the
   value log_derivative returns (and rh_verify adds to its rhs) on the same
   data and K. *)
C5_OneSemantics ==
  (Returned("main") /\ InRange(chi_arr, K) /\ InRange(lambda_arr, K)) =>
    ret.val = log_derivative(chi_arr, lambda_arr, K, NoUB).val

(* C6: with K = 0 the log-derivative adds 0 to rhs whatever the arrays hold:
   rh_verify(-4, 0, 0, [(-2, 2)], chi_arr, lambda_arr) returns true with
   N_used = 1, lhs = 2*(4/3) + 6/25 and rhs = 0.5*ln(4 e^2/(4 pi e^gamma)). *)
C6_KZero ==
  (op = "rh_verify" /\ K = 0 /\ d = -4 /\ eta = 0 /\ intervals = <<IvSym>>) =>
    ret = Ret("ok", TRUE, 1,
              Fin(2 * RDiv(4 * Scale, 3) + RDiv(6 * Scale, 25)),
              FHalf(log_neg_branch(-4)), Fin(0))

(* C7: when rh_verify has consumed every interval its lhs is
   2*iota(eta) + C_Z(intervals), and C_Z(intervals) is the sum of
   zero_contribution over the intervals taken in any order. *)
C7_CrossConsistency ==
  /\ (Returned("rh_verify") /\ ret.N_used = Len(intervals)) =>
       ret.lhs = FAdd(FTwice(iota(eta)), C_Z(intervals))
  /\ Returned("C_Z") =>
       \A f \in Permutations(Len(intervals)) :
         ret.val = SumContributions([i \in 1..Len(intervals) |-> intervals[f[i]]])

\* rh_verify returned true on the last of three intervals, among them one
\* inside and one just outside the symmetry tolerance
C7_Witness ==
  /\ Returned("rh_verify")
  /\ ret.verified
  /\ ret.N_used = Len(intervals)
  /\ Len(intervals) = 3
  /\ \E i, j \in 1..3 : intervals[i] = IvNearSym /\ intervals[j] = IvNearAsym

(* C8: if rh_verify returns true on a prefix S of the intervals, it returns
   true on the whole sequence S ++ T too, with the same N_used, lhs and rhs. *)
C8_Extension ==
  (Returned("rh_verify") /\ ArraysCover) =>
    \A m \in 0..Len(intervals) :
      LET r == rh_verify(d, K, eta, SubSeq(intervals, 1, m),
                         chi_arr, lambda_arr, NoUB)
      IN  r.verified =>
            /\ ret.verified
            /\ ret.N_used <= r.N_used
            /\ ret.N_used = r.N_used
            /\ ret.lhs = r.lhs
            /\ ret.rhs = r.rhs

\* A verified call whose sequence goes on after the verifying prefix
C8_Witness ==
  /\ Returned("rh_verify") /\ ArraysCover
  /\ ret.verified
  /\ ret.N_used < Len(intervals)
  /\ rh_verify(d, K, eta, SubSeq(intervals, 1, ret.N_used),
               chi_arr, lambda_arr, NoUB).verified

(* C9: the command-line program prints "Condition satisfied" exactly when
   rh_verify returns true on the same data. *)
C9_Verdict ==
  (Returned("main") /\ ArraysCover) =>
    ret.verified =
      rh_verify(d, K, eta, intervals, chi_arr, lambda_arr, NoUB).verified

(* C10: rh_verify compares only after folding an interval: a true result has
   N_used >= 1, and on an empty interval sequence it returns false with
   N_used = 0 and lhs = 2*iota(eta), even when 2*iota(eta) exceeds rhs. *)
C10_EmptyPrefixRejected ==
  Returned("rh_verify") =>
    /\ ret.verified => ret.N_used >= 1
    /\ intervals = <<>> =>
         /\ ~ret.verified
         /\ ret.N_used = 0
         /\ ret.lhs = FTwice(iota(eta))

\* No interval, 2*iota(eta) already above rhs, and still not verified
C10_Witness ==
  /\ Returned("rh_verify")
  /\ intervals = <<>>
  /\ FGt(FTwice(iota(eta)), ret.rhs)
  /\ ~ret.verified

====
